---- MODULE Spec2Model ----
(***************************************************************************)
(* A model of jenseng/dynamic-uses' set-env-vars step: the environment key *)
(* normalizer (normalize-env-key.ts), the minimal actions-core command     *)
(* protocol (actions-core.ts) and the batch exporter main().               *)
(*                                                                         *)
(* Text.  A JavaScript string is a sequence of atoms.  An atom is a TLA+   *)
(* string that stands for one UTF-16 code unit ("a", "B", "_", "%", ":",   *)
(* the names CR, LF, "U+017F", ...), or for a fixed run of ordinary        *)
(* characters that no operation of the program looks inside ("warning",    *)
(* "::", "ghadelimiter_", a UUID such as "u1").  Environment names and     *)
(* batch keys are always written one code unit per atom, because the       *)
(* normalizer works on single characters.                                  *)
(***************************************************************************)
EXTENDS Integers, Sequences, FiniteSets, TLC

VARIABLES
    env0,        \* process.env as the process started
    json,        \* what JSON.parse makes of the "variables" input
    env,         \* process.env: name -> value, for the names that are defined
    stdout,      \* the process.stdout.write calls so far, one text per call
    files,       \* the files on disk: path -> the appendFileSync calls so far
    exitCode,    \* process.exitCode (0: never assigned)
    thrown,      \* the Error that left main() uncaught (NoError: none)
    pc,          \* where main() is: "start", "loop", "done"
    entries,     \* main's Object.entries(variables)
    prefix,      \* main's local prefix
    upcase,      \* main's local upcase
    onConflict,  \* main's local onConflict
    i,           \* position of the for loop in entries (1-based)
    drawn,       \* the UUIDs crypto.randomUUID has returned so far
    nkey,        \* normalizer driver: the key
    nprefix,     \* normalizer driver: options.prefix
    nupcase,     \* normalizer driver: options.upcase
    nres,        \* normalizer driver: the results of the successive calls
    call,        \* facade driver: the call made, with its arguments
    ret          \* facade driver: what the call returned

mainVars == <<env0, json, env, stdout, files, exitCode, thrown, pc, entries,
              prefix, upcase, onConflict, i, drawn>>
normVars == <<nkey, nprefix, nupcase, nres>>
coreVars == <<call, ret>>
vars == <<env0, json, env, stdout, files, exitCode, thrown, pc, entries,
          prefix, upcase, onConflict, i, drawn, nkey, nprefix, nupcase, nres,
          call, ret>>

(***************************************************************************)
(* Bounds of the model.                                                    *)
(***************************************************************************)
\* longest "variables" object of a batch
MaxEntries == 2
\* longest key handed to the normalizer driver
MaxLen == 3

(***************************************************************************)
(* Characters.                                                             *)
(***************************************************************************)
LowerSeq == <<"a","b","c","d","e","f","g","h","i","j","k","l","m",
              "n","o","p","q","r","s","t","u","v","w","x","y","z">>
UpperSeq == <<"A","B","C","D","E","F","G","H","I","J","K","L","M",
              "N","O","P","Q","R","S","T","U","V","W","X","Y","Z">>
\* [a-z]
Lower == {LowerSeq[n] : n \in 1..26}
\* [A-Z]
Upper == {UpperSeq[n] : n \in 1..26}
\* [0-9]
Digit == {"0","1","2","3","4","5","6","7","8","9"}
CR == "<CR>"
LF == "<LF>"
\* os.EOL
EOL == LF

IndexIn(s, c) == CHOOSE n \in 1..Len(s) : s[n] = c

\* String.prototype.toUpperCase on one code unit.  Besides a-z, three
\* non-ASCII letters whose upper case is ASCII: U+017F (long s) -> "S",
\* U+0131 (dotless i) -> "I", U+00DF (sharp s) -> "SS".
UpperOf(c) ==
    IF c \in Lower THEN <<UpperSeq[IndexIn(LowerSeq, c)]>>
    ELSE IF c = "U+017F" THEN <<"S">>
    ELSE IF c = "U+0131" THEN <<"I">>
    ELSE IF c = "U+00DF" THEN <<"S", "S">>
    ELSE <<c>>

\* String.prototype.toLowerCase on one code unit.  Besides A-Z, the Kelvin
\* sign U+212A, whose lower case is ASCII "k".
LowerOf(c) ==
    IF c \in Upper THEN <<LowerSeq[IndexIn(UpperSeq, c)]>>
    ELSE IF c = "U+212A" THEN <<"k">>
    ELSE <<c>>

RECURSIVE ToUpperCase(_)
ToUpperCase(s) ==
    IF s = <<>> THEN <<>> ELSE UpperOf(Head(s)) \o ToUpperCase(Tail(s))

RECURSIVE ToLowerCase(_)
ToLowerCase(s) ==
    IF s = <<>> THEN <<>> ELSE LowerOf(Head(s)) \o ToLowerCase(Tail(s))

\* s.replace(/c/g, r) for a single character c
RECURSIVE ReplaceAll(_, _, _)
ReplaceAll(s, c, r) ==
    IF s = <<>> THEN <<>>
    ELSE (IF Head(s) = c THEN r ELSE <<Head(s)>>) \o ReplaceAll(Tail(s), c, r)

\* String.prototype.includes
Includes(s, sub) ==
    \E n \in 0..(Len(s) - Len(sub)) : SubSeq(s, n + 1, n + Len(sub)) = sub

(***************************************************************************)
(* normalize-env-key.ts                                                    *)
(***************************************************************************)

\* variant: the lookbehind class is [A-Z] instead of [a-z]
InsertBeforeUpper_AfterUpper(s) ==
    LET F[n \in 0..Len(s)] ==
            IF n = 0 THEN <<>>
            ELSE F[n - 1] \o
                 (IF s[n] \in Upper /\ (n = 1 \/ s[n - 1] \in Upper)
                  THEN <<"_", s[n]>> ELSE <<s[n]>>)
    IN F[Len(s)]

\* .replace(/(?<=(?:^|[a-z]))([A-Z])/g, "_$1"): every match is one upper-case
\* letter at the start of the string or right after a lower-case letter; the
\* lookbehind reads the subject, so the matches are independent.
InsertBeforeUpper(s) ==
    LET F[n \in 0..Len(s)] ==
            IF n = 0 THEN <<>>
            ELSE F[n - 1] \o
                 (IF s[n] \in Upper /\ (n = 1 \/ s[n - 1] \in Lower)
                  THEN <<"_", s[n]>> ELSE <<s[n]>>)
    IN F[Len(s)]

\* The match of /([A-Z]+)([A-Z][a-z])/ starting at position n of s, as the
\* end of group 1, or 0 when there is none.  [A-Z]+ is greedy: the longest
\* group 1 that lets group 2 match wins.
AcronymMatchEnd(s, n) ==
    LET ends == {k \in n..Len(s) :
                    /\ \A m \in n..k : s[m] \in Upper
                    /\ k + 2 <= Len(s)
                    /\ s[k + 1] \in Upper
                    /\ s[k + 2] \in Lower}
    IN IF ends = {} THEN 0 ELSE CHOOSE k \in ends : \A m \in ends : m <= k

\* .replace(/([A-Z]+)([A-Z][a-z])/g, "$1_$2"): scan from the left; after a
\* match the scan resumes behind it, otherwise one character is copied.
RECURSIVE SplitAcronymFrom(_, _)
SplitAcronymFrom(s, n) ==
    IF n > Len(s) THEN <<>>
    ELSE LET k == AcronymMatchEnd(s, n)
         IN IF k = 0 THEN <<s[n]>> \o SplitAcronymFrom(s, n + 1)
            ELSE SubSeq(s, n, k) \o <<"_", s[k + 1], s[k + 2]>>
                 \o SplitAcronymFrom(s, k + 3)

\* variant: the second replace is left out
SplitAcronym_Skipped(s) == s

SplitAcronym(s) == SplitAcronymFrom(s, 1)

\* .replace(/[^a-zA-Z0-9_]/g, "_")
SanitizeChars(s) ==
    [n \in 1..Len(s) |->
        IF s[n] \in Lower \cup Upper \cup Digit \cup {"_"} THEN s[n] ELSE "_"]

\* .replace(/_+/g, "_")
RECURSIVE CollapseUnderscores(_)
CollapseUnderscores(s) ==
    IF Len(s) < 2 THEN s
    ELSE IF s[1] = "_" /\ s[2] = "_" THEN CollapseUnderscores(Tail(s))
    ELSE <<s[1]>> \o CollapseUnderscores(Tail(s))

\* variant: /^_/ only, a trailing underscore stays
StripEnds_LeadingOnly(s) ==
    IF s # <<>> /\ s[1] = "_" THEN Tail(s) ELSE s

\* .replace(/^_|_$/g, ""): one underscore at the start and one at the end
StripEnds(s) ==
    LET a == IF s # <<>> /\ s[1] = "_" THEN Tail(s) ELSE s
    IN IF a # <<>> /\ a[Len(a)] = "_" THEN SubSeq(a, 1, Len(a) - 1) ELSE a

\* normalizeEnvKey(key, {prefix, upcase}); an absent prefix is the empty
\* string, which `if (options.prefix)` treats alike
normalizeEnvKey(key, pfx, up) ==
    LET s1 == IF pfx # <<>> THEN pfx \o <<"_">> \o key ELSE key
        s2 == SplitAcronym(InsertBeforeUpper(s1))
        s3 == IF up THEN ToUpperCase(s2) ELSE ToLowerCase(s2)
    IN StripEnds(CollapseUnderscores(SanitizeChars(s3)))

(***************************************************************************)
(* actions-core.ts.  The process state the functions act on is a record    *)
(* [env, stdout, files, exitCode, thrown, drawn]; a function that throws   *)
(* returns the state with the Error's message in thrown.                   *)
(***************************************************************************)
NoError == <<>>
EmptyMap == [n \in {} |-> <<>>]

\* a JavaScript value: a string, or a non-string with its JSON.stringify text
JsString(s) == [type |-> "string", str |-> s]
JsNumber(text) == [type |-> "number", str |-> text]

\* obj[name] = value
SetVar(map, name, value) ==
    [n \in DOMAIN map \cup {name} |-> IF n = name THEN value ELSE map[n]]

\* process.env[name] || ""
EnvOrEmpty(e, name) == IF name \in DOMAIN e THEN e[name] ELSE <<>>

Whitespace == {" ", "<TAB>", CR, LF}

\* String.prototype.trim
RECURSIVE TrimStart(_)
TrimStart(s) ==
    IF s # <<>> /\ Head(s) \in Whitespace THEN TrimStart(Tail(s)) ELSE s

RECURSIVE TrimEnd(_)
TrimEnd(s) ==
    IF s # <<>> /\ s[Len(s)] \in Whitespace
    THEN TrimEnd(SubSeq(s, 1, Len(s) - 1)) ELSE s

Trim(s) == TrimEnd(TrimStart(s))

\* getInput(name) without options: never throws, trims
getInput(e, name) ==
    LET val == EnvOrEmpty(e, <<"I","N","P","U","T","_">>
                             \o ToUpperCase(ReplaceAll(name, " ", <<"_">>)))
    IN Trim(val)

\* the name of the environment variable getInput reads
InputVar(name) ==
    <<"I","N","P","U","T","_">> \o ToUpperCase(ReplaceAll(name, " ", <<"_">>))

\* getInput(name, {required, trimWhitespace}); an option that is left out is
\* FALSE for required and TRUE for trimWhitespace:
\* [err |-> the Error thrown, or NoError, val |-> the string returned]
getInputOpt(e, name, required, trimWhitespace) ==
    LET val == EnvOrEmpty(e, InputVar(name))
    IN IF required /\ val = <<>>
       THEN [err |-> <<"Input required and not supplied: ">> \o name,
             val |-> <<>>]
       ELSE IF ~trimWhitespace THEN [err |-> NoError, val |-> val]
       ELSE [err |-> NoError, val |-> Trim(val)]

toCommandValue(input) ==
    IF input.type \in {"null", "undefined"} THEN <<>> ELSE input.str

\* variant: "%" is escaped last, behind the substitutions that introduce it
escapeData_PercentLast(s) ==
    ReplaceAll(ReplaceAll(ReplaceAll(toCommandValue(s),
        CR, <<"%","0","D">>), LF, <<"%","0","A">>), "%", <<"%","2","5">>)

escapeData(s) ==
    ReplaceAll(ReplaceAll(ReplaceAll(toCommandValue(s),
        "%", <<"%","2","5">>), CR, <<"%","0","D">>), LF, <<"%","0","A">>)

escapeProperty(s) ==
    ReplaceAll(ReplaceAll(ReplaceAll(ReplaceAll(ReplaceAll(toCommandValue(s),
        "%", <<"%","2","5">>), CR, <<"%","0","D">>), LF, <<"%","0","A">>),
        ":", <<"%","3","A">>), ",", <<"%","2","C">>)

\* Object.entries(properties).map(([k, v]) => `${k}=${escapeProperty(v)}`).join(",")
RECURSIVE JoinProperties(_)
JoinProperties(props) ==
    IF props = <<>> THEN <<>>
    ELSE <<props[1][1], "=">> \o escapeProperty(props[1][2])
         \o (IF Len(props) > 1 THEN <<",">> ELSE <<>>)
         \o JoinProperties(Tail(props))

\* the text issueCommand writes, os.EOL included; properties is the
\* sequence of Object.entries(properties)
CommandLine(command, properties, message) ==
    <<"::", command>>
    \o (IF properties # <<>> THEN <<" ">> \o JoinProperties(properties) ELSE <<>>)
    \o <<"::">> \o escapeData(message) \o <<EOL>>

issueCommand(st, command, properties, message) ==
    [st EXCEPT !.stdout = Append(@, CommandLine(command, properties, message))]

error(st, message) == issueCommand(st, "error", <<>>, message)

warning(st, message) == issueCommand(st, "warning", <<>>, message)

\* variant: process.exitCode is not assigned
setFailed_NoExitCode(st, message) == error(st, message)

\* process.exitCode = 1; error(message)
setFailed(st, message) == error([st EXCEPT !.exitCode = 1], message)

Delimiter(uuid) == <<"ghadelimiter_", uuid>>

\* variant: only the key is searched for the delimiter
prepareKeyValueMessage_KeyOnly(key, value, uuid) ==
    LET delimiter == Delimiter(uuid)
        convertedValue == toCommandValue(value)
    IN IF Includes(key, delimiter)
       THEN [err |-> <<"Unexpected input: name should not contain the delimiter \"">>
                     \o delimiter \o <<"\"">>,
             msg |-> <<>>]
       ELSE [err |-> NoError,
             msg |-> key \o <<"<<">> \o delimiter \o <<EOL>> \o convertedValue
                     \o <<EOL>> \o delimiter]

\* prepareKeyValueMessage(key, value) when crypto.randomUUID() returns uuid:
\* [err |-> the Error thrown, or NoError, msg |-> the message returned]
prepareKeyValueMessage(key, value, uuid) ==
    LET delimiter == Delimiter(uuid)
        convertedValue == toCommandValue(value)
    IN IF Includes(key, delimiter)
       THEN [err |-> <<"Unexpected input: name should not contain the delimiter \"">>
                     \o delimiter \o <<"\"">>,
             msg |-> <<>>]
       ELSE IF Includes(convertedValue, delimiter)
       THEN [err |-> <<"Unexpected input: value should not contain the delimiter \"">>
                     \o delimiter \o <<"\"">>,
             msg |-> <<>>]
       ELSE [err |-> NoError,
             msg |-> key \o <<"<<">> \o delimiter \o <<EOL>> \o convertedValue
                     \o <<EOL>> \o delimiter]

GithubVar(command) == <<"G","I","T","H","U","B","_">> \o command

\* issueFileCommand(command, message), message a string
issueFileCommand(st, command, message) ==
    LET filePath == EnvOrEmpty(st.env, GithubVar(command))
    IN IF filePath = <<>>
       THEN [st EXCEPT !.thrown =
                <<"Unable to find environment variable for file command ">> \o command]
       ELSE IF filePath \notin DOMAIN st.files
       THEN [st EXCEPT !.thrown = <<"Missing file at path: ">> \o filePath]
       ELSE [st EXCEPT !.files[filePath] =
                Append(@, toCommandValue(JsString(message)) \o <<EOL>>)]

\* issueFileCommand(command, prepareKeyValueMessage(key, value)) when
\* crypto.randomUUID() returns uuid; the argument is evaluated first, so a
\* colliding delimiter is reported before the file is looked for
issueFileCommandKeyValue(st, command, key, value, uuid) ==
    LET s2 == [st EXCEPT !.drawn = Append(@, uuid)]
        kv == prepareKeyValueMessage(key, value, uuid)
    IN IF kv.err # NoError THEN [s2 EXCEPT !.thrown = kv.err]
       ELSE issueFileCommand(s2, command, kv.msg)

\* variant: the record is emitted but process.env is not assigned
exportVariable_NoAssignment(st, name, value, uuid) ==
    LET convertedValue == toCommandValue(value)
    IN IF EnvOrEmpty(st.env, GithubVar(<<"E","N","V">>)) # <<>>
       THEN LET s2 == [st EXCEPT !.drawn = Append(@, uuid)]
                kv == prepareKeyValueMessage(name, value, uuid)
            IN IF kv.err # NoError THEN [s2 EXCEPT !.thrown = kv.err]
               ELSE issueFileCommand(s2, <<"E","N","V">>, kv.msg)
       ELSE issueCommand(st, "set-env", << <<"name", JsString(name)>> >>,
                         JsString(convertedValue))

\* variant: without a GITHUB_ENV file the assignment is not announced
exportVariable_SilentLegacy(st, name, value, uuid) ==
    LET convertedValue == toCommandValue(value)
        s1 == [st EXCEPT !.env = SetVar(@, name, convertedValue)]
    IN IF EnvOrEmpty(s1.env, GithubVar(<<"E","N","V">>)) # <<>>
       THEN LET s2 == [s1 EXCEPT !.drawn = Append(@, uuid)]
                kv == prepareKeyValueMessage(name, value, uuid)
            IN IF kv.err # NoError THEN [s2 EXCEPT !.thrown = kv.err]
               ELSE issueFileCommand(s2, <<"E","N","V">>, kv.msg)
       ELSE s1

\* exportVariable(name, value) when crypto.randomUUID(), if called, returns uuid
exportVariable(st, name, value, uuid) ==
    LET convertedValue == toCommandValue(value)
        s1 == [st EXCEPT !.env = SetVar(@, name, convertedValue)]
    IN IF EnvOrEmpty(s1.env, GithubVar(<<"E","N","V">>)) # <<>>
       THEN LET s2 == [s1 EXCEPT !.drawn = Append(@, uuid)]
                kv == prepareKeyValueMessage(name, value, uuid)
            IN IF kv.err # NoError THEN [s2 EXCEPT !.thrown = kv.err]
               ELSE issueFileCommand(s2, <<"E","N","V">>, kv.msg)
       ELSE issueCommand(s1, "set-env", << <<"name", JsString(name)>> >>,
                         JsString(convertedValue))

(***************************************************************************)
(* main.ts                                                                 *)
(***************************************************************************)
Policies == {<<"overwrite">>, <<"preserve">>, <<"error">>}

\* `Environment variable "${keyString}" already exists${tail}`
ConflictMessage(keyString, tail) ==
    JsString(<<"Environment variable \"">> \o keyString
             \o <<"\" already exists">> \o tail)

\* variant: the `return` of the error branch is missing
ConflictBranch_ErrorFallsThrough(st, keyString, oc) ==
    IF keyString \notin DOMAIN st.env THEN [st |-> st, ctl |-> "export"]
    ELSE IF oc = <<"error">>
    THEN [st |-> setFailed(st, ConflictMessage(keyString, <<>>)),
          ctl |-> "export"]
    ELSE IF oc = <<"overwrite">>
    THEN [st |-> warning(st, ConflictMessage(keyString,
                     <<", overwriting with new value">>)),
          ctl |-> "export"]
    ELSE [st |-> warning(st, ConflictMessage(keyString,
                     <<", preserving existing value">>)),
          ctl |-> "continue"]

\* variant: the `continue` of the preserve branch is missing
ConflictBranch_PreserveFallsThrough(st, keyString, oc) ==
    IF keyString \notin DOMAIN st.env THEN [st |-> st, ctl |-> "export"]
    ELSE IF oc = <<"error">>
    THEN [st |-> setFailed(st, ConflictMessage(keyString, <<>>)),
          ctl |-> "return"]
    ELSE IF oc = <<"overwrite">>
    THEN [st |-> warning(st, ConflictMessage(keyString,
                     <<", overwriting with new value">>)),
          ctl |-> "export"]
    ELSE [st |-> warning(st, ConflictMessage(keyString,
                     <<", preserving existing value">>)),
          ctl |-> "export"]

\* variant: the policy is applied without the `keyString in process.env` test
ConflictBranch_Unconditional(st, keyString, oc) ==
    IF oc = <<"error">>
    THEN [st |-> setFailed(st, ConflictMessage(keyString, <<>>)),
          ctl |-> "return"]
    ELSE IF oc = <<"overwrite">>
    THEN [st |-> warning(st, ConflictMessage(keyString,
                     <<", overwriting with new value">>)),
          ctl |-> "export"]
    ELSE [st |-> warning(st, ConflictMessage(keyString,
                     <<", preserving existing value">>)),
          ctl |-> "continue"]

\* main's `if (keyString in process.env) { ... }`:
\* [st |-> the process state after it, ctl |-> "export" (go on to
\*  exportVariable), "continue" (next entry) or "return" (main returns)]
ConflictBranch(st, keyString, oc) ==
    IF keyString \notin DOMAIN st.env THEN [st |-> st, ctl |-> "export"]
    ELSE IF oc = <<"error">>
    THEN [st |-> setFailed(st, ConflictMessage(keyString, <<>>)),
          ctl |-> "return"]
    ELSE IF oc = <<"overwrite">>
    THEN [st |-> warning(st, ConflictMessage(keyString,
                     <<", overwriting with new value">>)),
          ctl |-> "export"]
    ELSE IF oc = <<"preserve">>
    THEN [st |-> warning(st, ConflictMessage(keyString,
                     <<", preserving existing value">>)),
          ctl |-> "continue"]
    ELSE [st |-> st, ctl |-> "export"]

\* One pass of main's for loop over the entry e = [key, value]:
\* [st |-> the process state after it, ctl |-> "next" (the loop goes on),
\*  "return" (main returned) or "throw" (an Error left main)]
LoopBody(st, e, pfx, up, oc, uuid) ==
    IF e.value.type # "string"
    THEN [st |-> setFailed(st, JsString(<<"variable value for key \"">> \o e.key
                                         \o <<"\" must be a string">>)),
          ctl |-> "return"]
    ELSE LET keyString == normalizeEnvKey(e.key, pfx, up)
             c == ConflictBranch(st, keyString, oc)
             exported == exportVariable(c.st, keyString, e.value, uuid)
         IN IF c.ctl = "return" THEN c
            ELSE IF c.ctl = "continue" THEN [st |-> c.st, ctl |-> "next"]
            ELSE [st |-> exported,
                  ctl |-> IF exported.thrown # NoError THEN "throw" ELSE "next"]

\* getInput("on-conflict") || "overwrite"
OnConflictInput(e) ==
    LET v == getInput(e, <<"o","n","-","c","o","n","f","l","i","c","t">>)
    IN IF v = <<>> THEN <<"overwrite">> ELSE v

\* main() up to its for loop, js being JSON.parse's result ("invalid": it
\* threw): [st |-> the process state, ctl |-> "loop" or "return", and the
\* locals the loop reads]
Prologue(st, js) ==
    LET pfx == getInput(st.env, <<"p","r","e","f","i","x">>)
        up == (getInput(st.env, <<"u","p","c","a","s","e">>) = <<"true">>)
        oc == OnConflictInput(st.env)
    IN IF js.kind # "object"
       THEN [st |-> setFailed(st,
                       JsString(<<"variables input must be a valid JSON object">>)),
             ctl |-> "return", entries |-> <<>>,
             prefix |-> <<>>, upcase |-> FALSE, onConflict |-> <<>>]
       ELSE IF oc \notin Policies
       THEN [st |-> setFailed(st, JsString(
                       <<"on-conflict input must be one of: overwrite, preserve, error">>)),
             ctl |-> "return", entries |-> <<>>,
             prefix |-> pfx, upcase |-> up, onConflict |-> oc]
       ELSE [st |-> st, ctl |-> "loop", entries |-> js.entries,
             prefix |-> pfx, upcase |-> up, onConflict |-> oc]

UUIDs == {"u1", "u2"}

\* the UUID the next crypto.randomUUID() call of a run returns, when the
\* calls of the run return supply[1], supply[2], ... (and "u2" once the
\* supply is used up)
NextUuid(st, supply) ==
    IF Len(st.drawn) < Len(supply) THEN supply[Len(st.drawn) + 1] ELSE "u2"

\* main's for loop from entry k on
RECURSIVE MainLoop(_, _, _, _, _, _, _)
MainLoop(st, es, k, pfx, up, oc, supply) ==
    IF k > Len(es) THEN st
    ELSE LET r == LoopBody(st, es[k], pfx, up, oc, NextUuid(st, supply))
         IN IF r.ctl = "next" THEN MainLoop(r.st, es, k + 1, pfx, up, oc, supply)
            ELSE r.st

\* main() as a whole: the process state it ends in
mainRun(st, js, supply) ==
    LET p == Prologue(st, js)
    IN IF p.ctl = "return" THEN p.st
       ELSE MainLoop(p.st, p.entries, 1, p.prefix, p.upcase, p.onConflict, supply)

\* the process state as a record
Process ==
    [env |-> env, stdout |-> stdout, files |-> files, exitCode |-> exitCode,
     thrown |-> thrown, drawn |-> drawn]

SetProcess(st) ==
    /\ env' = st.env
    /\ stdout' = st.stdout
    /\ files' = st.files
    /\ exitCode' = st.exitCode
    /\ thrown' = st.thrown
    /\ drawn' = st.drawn

\* main() up to its for loop
Start ==
    /\ pc = "start"
    /\ LET p == Prologue(Process, json)
       IN /\ SetProcess(p.st)
          /\ pc' = IF p.ctl = "loop" THEN "loop" ELSE "done"
          /\ entries' = p.entries
          /\ prefix' = p.prefix
          /\ upcase' = p.upcase
          /\ onConflict' = p.onConflict
    /\ UNCHANGED <<env0, json, i>>
    /\ UNCHANGED normVars
    /\ UNCHANGED coreVars

\* one pass of the for loop
Iterate ==
    /\ pc = "loop"
    /\ i <= Len(entries)
    /\ \E uuid \in UUIDs :
         LET r == LoopBody(Process, entries[i], prefix, upcase, onConflict, uuid)
         IN /\ SetProcess(r.st)
            /\ pc' = IF r.ctl = "next" THEN "loop" ELSE "done"
            /\ i' = IF r.ctl = "next" THEN i + 1 ELSE i
    /\ UNCHANGED <<env0, json, entries, prefix, upcase, onConflict>>
    /\ UNCHANGED normVars
    /\ UNCHANGED coreVars

\* the for loop is over: main returns
Return ==
    /\ pc = "loop"
    /\ i > Len(entries)
    /\ pc' = "done"
    /\ UNCHANGED <<env0, json, env, stdout, files, exitCode, thrown, entries,
                   prefix, upcase, onConflict, i, drawn>>
    /\ UNCHANGED normVars
    /\ UNCHANGED coreVars

(***************************************************************************)
(* The runs of main() that are checked.                                    *)
(***************************************************************************)
GITHUB_ENV == GithubVar(<<"E","N","V">>)
INPUT_PREFIX == <<"I","N","P","U","T","_","P","R","E","F","I","X">>
INPUT_UPCASE == <<"I","N","P","U","T","_","U","P","C","A","S","E">>
INPUT_ON_CONFLICT ==
    <<"I","N","P","U","T","_","O","N","-","C","O","N","F","L","I","C","T">>

ExistingPath == <<"/run/env">>
MissingPath == <<"/run/gone">>

BatchKeys ==
    { <<"f","o","o">>, <<"F","o","o">>, <<"!">>,
      <<"g","i","t","h","u","b","_","e","n","v">> }

BatchValues ==
    { JsString(<<"new">>), JsString(<<"%", CR, LF>> \o Delimiter("u1")),
      JsNumber(<<"1">>) }

BatchEntries == [key : BatchKeys, value : BatchValues]

\* Object.entries of a parsed JSON object: no key twice
RECURSIVE Batches(_)
Batches(n) ==
    IF n = 0 THEN {<<>>}
    ELSE LET shorter == Batches(n - 1)
         IN shorter \cup
            {Append(b, e) : b \in {x \in shorter : Len(x) = n - 1}, e \in BatchEntries}

DistinctKeys(b) ==
    \A m, n \in 1..Len(b) : m # n => b[m].key # b[n].key

JsonInputs ==
    {[kind |-> k, entries |-> <<>>] : k \in {"invalid", "null", "number"}}
    \cup {[kind |-> "object", entries |-> b] :
             b \in {x \in Batches(MaxEntries) : DistinctKeys(x)}}

\* a partial map: each name of the domain is either absent or has one of its values
Maps(choices) ==
    UNION {[d -> UNION {choices[n] : n \in d}] : d \in SUBSET DOMAIN choices}

WellFormed(m, choices) == \A n \in DOMAIN m : m[n] \in choices[n]

UserVars ==
    {EmptyMap,
     [n \in {<<"f","o","o">>, <<"F","O","O">>} |-> <<"old">>]}

Merge(a, b) ==
    [n \in DOMAIN a \cup DOMAIN b |-> IF n \in DOMAIN a THEN a[n] ELSE b[n]]

RunnerVars ==
    LET choices == [n \in {GITHUB_ENV, INPUT_PREFIX, INPUT_UPCASE, INPUT_ON_CONFLICT} |->
                      IF n = GITHUB_ENV THEN {ExistingPath, MissingPath}
                      ELSE IF n = INPUT_PREFIX THEN {<<" ", "p">>}
                      ELSE IF n = INPUT_UPCASE THEN {<<"true">>}
                      ELSE {<<"overwrite">>, <<"preserve">>, <<" ", "error", LF>>,
                            <<"replace">>}]
    IN {m \in Maps(choices) : WellFormed(m, choices)}

\* the files on disk as the process starts: the runner's command file, empty
Files0 == [p \in {ExistingPath} |-> <<>>]

NormIdle ==
    nkey = <<>> /\ nprefix = <<>> /\ nupcase = FALSE /\ nres = <<>>

\* the facade driver is not in use
NoCall == [op |-> "none"]

\* the facade driver has not made its call yet
CallPending == [op |-> "pending"]

CoreIdle == call = NoCall /\ ret = <<>>

Init ==
    /\ json \in JsonInputs
    /\ env0 \in {Merge(u, r) : u \in UserVars, r \in RunnerVars}
    /\ env = env0
    /\ stdout = <<>>
    /\ files = Files0
    /\ exitCode = 0
    /\ thrown = NoError
    /\ pc = "start"
    /\ entries = <<>>
    /\ prefix = <<>>
    /\ upcase = FALSE
    /\ onConflict = <<>>
    /\ i = 1
    /\ drawn = <<>>
    /\ NormIdle
    /\ CoreIdle

Next == Start \/ Iterate \/ Return

Spec == Init /\ [][Next]_vars

(***************************************************************************)
(* The normalizer driver: a key and options drawn from bounded sets, and   *)
(* normalizeEnvKey applied to the key and then to its own result.          *)
(***************************************************************************)
NormAlphabet == {"a", "B", "1", "_", ".", "U+017F"}

RECURSIVE StringsUpTo(_, _)
StringsUpTo(alphabet, n) ==
    IF n = 0 THEN {<<>>}
    ELSE LET shorter == StringsUpTo(alphabet, n - 1)
         IN shorter \cup {Append(s, c) : s \in shorter, c \in alphabet}

NormPrefixes == {<<>>, <<"p">>, <<"X">>, <<"_">>, <<"a", "B">>}

MainIdle ==
    /\ env0 = EmptyMap /\ json = [kind |-> "invalid", entries |-> <<>>]
    /\ env = EmptyMap /\ stdout = <<>> /\ files = EmptyMap /\ exitCode = 0
    /\ thrown = NoError /\ pc = "done" /\ entries = <<>> /\ prefix = <<>>
    /\ upcase = FALSE /\ onConflict = <<>> /\ i = 1 /\ drawn = <<>>

NormInit ==
    /\ MainIdle
    /\ CoreIdle
    /\ nkey \in StringsUpTo(NormAlphabet, MaxLen)
    /\ nprefix \in NormPrefixes
    /\ nupcase \in BOOLEAN
    /\ nres = <<>>

\* the first call normalizes the key
NormalizeKey ==
    /\ nres = <<>>
    /\ nres' = <<normalizeEnvKey(nkey, nprefix, nupcase)>>
    /\ UNCHANGED <<nkey, nprefix, nupcase>>
    /\ UNCHANGED mainVars
    /\ UNCHANGED coreVars

\* the second call normalizes the first call's result, with the same options
NormalizeAgain ==
    /\ Len(nres) = 1
    /\ nres' = Append(nres, normalizeEnvKey(nres[1], nprefix, nupcase))
    /\ UNCHANGED <<nkey, nprefix, nupcase>>
    /\ UNCHANGED mainVars
    /\ UNCHANGED coreVars

NormNext == NormalizeKey \/ NormalizeAgain

SpecNorm == NormInit /\ [][NormNext]_vars

(***************************************************************************)
(* The facade driver: one call of an operation of actions-core, in a       *)
(* process whose environment and whose arguments are drawn from bounded    *)
(* sets.                                                                   *)
(***************************************************************************)
INPUT_MY_X == <<"I","N","P","U","T","_","M","Y","_","X">>

InputNames == { <<"m","y"," ","x">>, <<"z">> }

CoreEnvs ==
    LET choices == [n \in {GITHUB_ENV, INPUT_MY_X} |->
                      IF n = GITHUB_ENV THEN {ExistingPath, MissingPath}
                      ELSE {<<>>, <<" ">>, <<"<TAB>", LF>>, <<" ", "a", " ">>,
                            <<"a">>}]
    IN {m \in Maps(choices) : WellFormed(m, choices)}

EscapeAlphabet == {"%", CR, LF, ":", ",", "0", "A"}

FrameAlphabet == {"x", LF, "ghadelimiter_", "u1"}

FrameKeys ==
    { <<"x">>, <<"x", "ghadelimiter_">>, Delimiter("u1"),
      <<"x">> \o Delimiter("u2") }

FrameValues ==
    {JsString(s) : s \in StringsUpTo(FrameAlphabet, MaxLen)}
    \cup {JsNumber(<<"1">>)}

CoreInit ==
    /\ env0 \in CoreEnvs
    /\ env = env0
    /\ json = [kind |-> "invalid", entries |-> <<>>]
    /\ stdout = <<>>
    /\ files = Files0
    /\ exitCode = 0
    /\ thrown = NoError
    /\ pc = "done"
    /\ entries = <<>>
    /\ prefix = <<>>
    /\ upcase = FALSE
    /\ onConflict = <<>>
    /\ i = 1
    /\ drawn = <<>>
    /\ NormIdle
    /\ call = CallPending
    /\ ret = <<>>

\* getInput(name, {required, trimWhitespace})
CallGetInput ==
    /\ call.op = "pending"
    /\ \E name \in InputNames, required \in BOOLEAN, trimWhitespace \in BOOLEAN :
         LET r == getInputOpt(env, name, required, trimWhitespace)
         IN /\ call' = [op |-> "getInput", name |-> name, required |-> required,
                        trimWhitespace |-> trimWhitespace]
            /\ ret' = r.val
            /\ thrown' = r.err
    /\ UNCHANGED <<env0, json, env, stdout, files, exitCode, pc, entries,
                   prefix, upcase, onConflict, i, drawn>>
    /\ UNCHANGED normVars

\* escapeData(s) and escapeProperty(s)
CallEscape ==
    /\ call.op = "pending"
    /\ \E s \in StringsUpTo(EscapeAlphabet, MaxLen) :
         /\ call' = [op |-> "escape", s |-> s]
         /\ ret' = [data |-> escapeData(JsString(s)),
                    property |-> escapeProperty(JsString(s))]
    /\ UNCHANGED mainVars
    /\ UNCHANGED normVars

\* issueFileCommand("ENV", prepareKeyValueMessage(key, value))
CallIssueFileCommand ==
    /\ call.op = "pending"
    /\ \E key \in FrameKeys, value \in FrameValues, uuid \in UUIDs :
         /\ call' = [op |-> "issueFileCommand", key |-> key, value |-> value,
                     uuid |-> uuid]
         /\ SetProcess(issueFileCommandKeyValue(Process, <<"E","N","V">>,
                                                key, value, uuid))
    /\ UNCHANGED <<env0, json, pc, entries, prefix, upcase, onConflict, i, ret>>
    /\ UNCHANGED normVars

CoreNext == CallGetInput \/ CallEscape \/ CallIssueFileCommand

SpecCore == CoreInit /\ [][CoreNext]_vars

(***************************************************************************)
(* The runs of main() and the calls of the facade driver together.         *)
(***************************************************************************)
AllInit == Init \/ CoreInit

AllNext == Next \/ CoreNext

SpecAll == AllInit /\ [][AllNext]_vars

(***************************************************************************)
(* Vocabulary of the properties below.                                     *)
(***************************************************************************)
\* the for loop stands before the entry at position i
AtEntry == pc = "loop" /\ i <= Len(entries)

\* the normalized name of the entry at position k
NameOf(k) == normalizeEnvKey(entries[k].key, prefix, upcase)

\* the loop stands before a string entry whose name is already defined
AtConflict ==
    /\ AtEntry
    /\ entries[i].value.type = "string"
    /\ NameOf(i) \in DOMAIN env

\* w is a legacy command line of the given command name
IsCommand(w, name) == Len(w) >= 3 /\ w[1] = "::" /\ w[2] = name

\* the step wrote exactly one line to stdout: an annotation of the given
\* command name whose message names the text
Annotates(name, text) ==
    /\ Len(stdout') = Len(stdout) + 1
    /\ SubSeq(stdout', 1, Len(stdout)) = stdout
    /\ LET w == stdout'[Len(stdout')]
       IN SubSeq(w, 1, 3) = <<"::", name, "::">> /\ Includes(w, text)

\* the number of export records emitted so far: set-env lines on stdout and
\* blocks appended to any file
RECURSIVE SumLen(_, _)
SumLen(f, S) ==
    IF S = {} THEN 0
    ELSE LET x == CHOOSE y \in S : TRUE IN Len(f[x]) + SumLen(f, S \ {x})

NumRecords(out, fs) ==
    Cardinality({n \in 1..Len(out) : IsCommand(out[n], "set-env")})
    + SumLen(fs, DOMAIN fs)

Warnings(out) == {n \in 1..Len(out) : IsCommand(out[n], "warning")}

\* main is over and nothing of the process changes any more
Halted == pc = "done" => UNCHANGED <<env, stdout, files, exitCode>>

(***************************************************************************)
(* C1.  Under onConflict = error, when the loop reaches an entry whose     *)
(* normalized name is already defined in process.env, the step sets        *)
(* process.exitCode to 1, writes one error annotation naming the variable, *)
(* leaves process.env (so that variable's value) and the files unchanged,  *)
(* emits no export record, and main is over at that entry: nothing of the  *)
(* process changes afterwards.                                             *)
(***************************************************************************)
C1_ErrorPolicyHalts ==
    [][ /\ (AtConflict /\ onConflict = <<"error">>) =>
             /\ exitCode' = 1
             /\ Annotates("error", <<"Environment variable \"">> \o NameOf(i)
                                   \o <<"\" already exists">>)
             /\ env' = env
             /\ files' = files
             /\ NumRecords(stdout', files') = NumRecords(stdout, files)
             /\ pc' = "done"
             /\ i' = i
        /\ Halted ]_vars

\* main halted on a conflict at the second entry, after exporting the first
C1_Witness ==
    /\ pc = "done"
    /\ onConflict = <<"error">>
    /\ exitCode = 1
    /\ i = 2 /\ Len(entries) = 2
    /\ entries[2].value.type = "string"
    /\ NameOf(2) \in DOMAIN env
    /\ NumRecords(stdout, files) = 1
    /\ IsCommand(stdout[Len(stdout)], "error")

(***************************************************************************)
(* C2.  Under onConflict = preserve, when the loop reaches an entry whose  *)
(* normalized name is already defined, the step writes one warning naming  *)
(* it, leaves process.env and the files unchanged, emits no export record, *)
(* and the loop goes on to the next entry; and every variable defined when *)
(* the process started keeps its value throughout the run.                 *)
(***************************************************************************)
C2_PreserveKeeps ==
    [][ /\ (AtConflict /\ onConflict = <<"preserve">>) =>
             /\ Annotates("warning", <<"Environment variable \"">> \o NameOf(i)
                                     \o <<"\" already exists">>)
             /\ env' = env
             /\ files' = files
             /\ NumRecords(stdout', files') = NumRecords(stdout, files)
             /\ exitCode' = exitCode
             /\ pc' = "loop"
             /\ i' = i + 1
        /\ onConflict' = <<"preserve">> =>
             \A n \in DOMAIN env0 : n \in DOMAIN env' /\ env'[n] = env0[n] ]_vars

\* a preserved conflict at the first entry, and the second entry exported
C2_Witness ==
    /\ pc = "done"
    /\ onConflict = <<"preserve">>
    /\ Len(entries) = 2 /\ i = 3
    /\ NameOf(1) \in DOMAIN env0
    /\ env[NameOf(1)] = <<"old">>
    /\ entries[1].value.str # <<"old">>
    /\ Len(stdout) = 2
    /\ IsCommand(stdout[1], "warning")
    /\ IsCommand(stdout[2], "set-env")
    /\ env[NameOf(2)] = entries[2].value.str

(***************************************************************************)
(* C3.  Under onConflict = overwrite, when the loop reaches an entry whose *)
(* normalized name is already defined, the step writes a warning naming it *)
(* and process.env then holds the entry's value under that name; and when  *)
(* main has gone through the whole batch, every name an entry normalizes   *)
(* to holds the value of the last entry that normalizes to it.             *)
(***************************************************************************)
\* main went through every entry and returned
Completed ==
    pc = "done" /\ json.kind = "object" /\ onConflict \in Policies
    /\ i > Len(entries) /\ thrown = NoError

LastWithName(k) ==
    CHOOSE m \in k..Len(entries) :
        /\ NameOf(m) = NameOf(k)
        /\ \A n \in (m + 1)..Len(entries) : NameOf(n) # NameOf(k)

C3_OverwriteWins ==
    /\ [][ (AtConflict /\ onConflict = <<"overwrite">>) =>
             /\ Len(stdout') >= Len(stdout) + 1
             /\ SubSeq(stdout', 1, Len(stdout)) = stdout
             /\ LET w == stdout'[Len(stdout) + 1]
                IN /\ SubSeq(w, 1, 3) = <<"::", "warning", "::">>
                   /\ Includes(w, <<"Environment variable \"">> \o NameOf(i)
                                  \o <<"\" already exists">>)
             /\ NameOf(i) \in DOMAIN env'
             /\ env'[NameOf(i)] = entries[i].value.str ]_vars
    /\ []( (Completed /\ onConflict = <<"overwrite">>) =>
             \A k \in 1..Len(entries) :
                 /\ NameOf(k) \in DOMAIN env
                 /\ env[NameOf(k)] = entries[LastWithName(k)].value.str )

\* a completed batch whose two entries normalize to one name that was
\* defined before: both overwrote, the second one's value stands
C3_Witness ==
    /\ Completed
    /\ onConflict = <<"overwrite">>
    /\ Len(entries) = 2
    /\ NameOf(1) = NameOf(2)
    /\ NameOf(1) \in DOMAIN env0
    /\ entries[1].value.str # entries[2].value.str
    /\ env[NameOf(1)] = entries[2].value.str
    /\ Cardinality(Warnings(stdout)) = 2

(***************************************************************************)
(* C4.  As claimed: for a batch of string values none of whose normalized  *)
(* names is defined in process.env when the process starts, the run ends   *)
(* as the runs under the other two policies end (same process.env, same    *)
(* stdout, same files), without any warning, without the failure signal    *)
(* and without an Error.                                                   *)
(***************************************************************************)
\* what a run of main leaves behind, the on-conflict input itself left out
Observable(st) ==
    [env |-> [n \in DOMAIN st.env \ {INPUT_ON_CONFLICT} |-> st.env[n]],
     stdout |-> st.stdout, files |-> st.files,
     exitCode |-> st.exitCode, thrown |-> st.thrown]

\* the run of main on the same inputs, with the same UUIDs, under policy p
RunUnder(p) ==
    mainRun([env |-> SetVar(env0, INPUT_ON_CONFLICT, p), stdout |-> <<>>,
             files |-> Files0, exitCode |-> 0, thrown |-> NoError,
             drawn |-> <<>>],
            json, drawn)

\* main ran on an object of string values, under one of the three policies
StringBatchDone ==
    /\ pc = "done"
    /\ json.kind = "object"
    /\ onConflict \in Policies
    /\ \A k \in 1..Len(entries) : entries[k].value.type = "string"

NoneDefinedAtStart == \A k \in 1..Len(entries) : NameOf(k) \notin DOMAIN env0

NamesDistinct ==
    \A k, m \in 1..Len(entries) : k # m => NameOf(k) # NameOf(m)

C4_Original ==
    (StringBatchDone /\ NoneDefinedAtStart) =>
        /\ \A p \in Policies : Observable(RunUnder(p)) = Observable(Process)
        /\ Warnings(stdout) = {}
        /\ exitCode = 0
        /\ thrown = NoError

(***************************************************************************)
(* C4, amended.  For a batch of string values none of whose normalized     *)
(* names is defined in process.env when its entry is reached (none is      *)
(* defined at the start and no two keys normalize to one name), the run    *)
(* ends as the runs under the other two policies end (same process.env,    *)
(* same stdout, same files, same uncaught Error if any), without any       *)
(* warning and without the failure signal; and unless an Error left main   *)
(* (a record could not be written), main went through every entry.         *)
(***************************************************************************)
C4_PolicyIrrelevant ==
    (StringBatchDone /\ NoneDefinedAtStart /\ NamesDistinct) =>
        /\ \A p \in Policies : Observable(RunUnder(p)) = Observable(Process)
        /\ Warnings(stdout) = {}
        /\ exitCode = 0
        /\ thrown = NoError => i > Len(entries)

\* a conflict-free batch of two entries, exported under a policy other than
\* the default
C4_Witness ==
    /\ StringBatchDone /\ NoneDefinedAtStart /\ NamesDistinct
    /\ onConflict = <<"error">>
    /\ Len(entries) = 2 /\ i = 3
    /\ NumRecords(stdout, files) = 2
    /\ thrown = NoError

(***************************************************************************)
(* C5.  When the loop reaches an entry whose value is not a string, the    *)
(* step sets process.exitCode to 1 and writes one error annotation naming  *)
(* the entry's key; process.env, the files and what stdout held are kept   *)
(* as the earlier entries left them, no export record is added, and main   *)
(* is over at that entry: nothing of the process changes afterwards.       *)
(***************************************************************************)
C5_NonStringAborts ==
    [][ /\ (AtEntry /\ entries[i].value.type # "string") =>
             /\ exitCode' = 1
             /\ Annotates("error", <<"variable value for key \"">>
                                   \o entries[i].key)
             /\ env' = env
             /\ files' = files
             /\ NumRecords(stdout', files') = NumRecords(stdout, files)
             /\ pc' = "done"
             /\ i' = i
        /\ Halted ]_vars

\* main halted on a non-string second entry; the first one stays exported
C5_Witness ==
    /\ pc = "done"
    /\ exitCode = 1
    /\ i = 2 /\ Len(entries) = 2
    /\ entries[2].value.type # "string"
    /\ NameOf(1) \notin DOMAIN env0
    /\ env[NameOf(1)] = entries[1].value.str
    /\ NumRecords(stdout, files) = 1
    /\ IsCommand(stdout[Len(stdout)], "error")

(***************************************************************************)
(* C6.  As claimed: when main ends on a fatal validation condition (the    *)
(* input is no JSON object, the conflict policy name is invalid, a value   *)
(* is not a string, the delimiter collides), process.exitCode is 1, the    *)
(* last line written is an error annotation and no Error left main; and    *)
(* with an invalid policy name nothing was exported.                       *)
(***************************************************************************)
DelimiterCollision ==
    /\ thrown # NoError
    /\ thrown[1] \in {"Unexpected input: name should not contain the delimiter \"",
                      "Unexpected input: value should not contain the delimiter \""}

FatalValidation ==
    \/ json.kind # "object"
    \/ onConflict \notin Policies
    \/ (i <= Len(entries) /\ entries[i].value.type # "string")
    \/ DelimiterCollision

C6_ValidationFailuresSignalled ==
    pc = "done" =>
        /\ FatalValidation =>
             /\ exitCode = 1
             /\ stdout # <<>>
             /\ IsCommand(stdout[Len(stdout)], "error")
             /\ thrown = NoError
        /\ (json.kind = "object" /\ onConflict \notin Policies) =>
             env = env0 /\ NumRecords(stdout, files) = 0

(***************************************************************************)
(* C8.  As claimed: every name main exports a value under (every name      *)
(* defined in process.env that was not defined when the process started)   *)
(* is non-empty and consists of characters of [A-Za-z0-9_].                *)
(***************************************************************************)
WordChars == Lower \cup Upper \cup Digit \cup {"_"}

ValidEnvironmentKey(n) ==
    n # <<>> /\ \A k \in 1..Len(n) : n[k] \in WordChars

C8_ExportedNamesValid ==
    \A n \in DOMAIN env \ DOMAIN env0 : ValidEnvironmentKey(n)

(***************************************************************************)
(* C7.  As claimed: for every key and every options (prefix, upcase),      *)
(* normalizing the result of normalizeEnvKey again with the same options   *)
(* gives the same result.                                                  *)
(***************************************************************************)
C7_Original == Len(nres) = 2 => nres[2] = nres[1]

(***************************************************************************)
(* C7, amended.  For every key and every options without a prefix,         *)
(* normalizing the result of normalizeEnvKey again with the same options   *)
(* gives the same result.                                                  *)
(***************************************************************************)
C7_IdempotentWithoutPrefix ==
    (Len(nres) = 2 /\ nprefix = <<>>) => nres[2] = nres[1]

\* a key that normalization changes, normalized twice without a prefix
C7_Witness ==
    /\ Len(nres) = 2
    /\ nprefix = <<>>
    /\ nupcase
    /\ nkey = <<"a", "B", ".">>
    /\ nres[1] = <<"A", "_", "B">>
    /\ nres[2] = nres[1]

(***************************************************************************)
(* C9.  Every result of normalizeEnvKey consists of characters of          *)
(* [A-Za-z0-9_] only, neither starts nor ends with an underscore, has no   *)
(* two underscores in a row, and has no upper-case letter when upcase is   *)
(* false and no lower-case letter when upcase is true.                     *)
(***************************************************************************)
Canonical(r, up) ==
    /\ \A k \in 1..Len(r) : r[k] \in WordChars
    /\ r # <<>> => r[1] # "_" /\ r[Len(r)] # "_"
    /\ \A k \in 1..(Len(r) - 1) : ~(r[k] = "_" /\ r[k + 1] = "_")
    /\ \A k \in 1..Len(r) : IF up THEN r[k] \notin Lower ELSE r[k] \notin Upper

C9_ResultCanonical ==
    \A k \in 1..Len(nres) : Canonical(nres[k], nupcase)

\* a key with a non-ASCII letter, a camelCase boundary and a character
\* outside the class, normalized to a name with an inner underscore
C9_Witness ==
    /\ Len(nres) >= 1
    /\ nkey = <<"U+017F", "B", ".">>
    /\ nprefix = <<"a", "B">>
    /\ nupcase
    /\ nres[1] = <<"A", "_", "B", "_", "S", "B">>

(***************************************************************************)
(* C10.  For every key and options, normalizeEnvKey returns the result of  *)
(* the six steps applied in order: prepend "<prefix>_" when a prefix is    *)
(* given; insert an underscore before each upper-case letter that follows  *)
(* a lower-case letter, and before the last upper-case letter of a run of  *)
(* two or more upper-case letters that a lower-case letter follows; apply  *)
(* the case transform; replace each character outside [A-Za-z0-9_] by an   *)
(* underscore; collapse the runs of underscores; strip one leading and one *)
(* trailing underscore.  And the key "helloWorld.LolHAHAOkay!" behind a    *)
(* non-ASCII character gives "hello_world_lol_haha_okay".                  *)
(***************************************************************************)
\* step 2: an underscore goes before position n of s
WordBoundary(s, n) ==
    /\ n > 1
    /\ s[n] \in Upper
    /\ \/ s[n - 1] \in Lower
       \/ s[n - 1] \in Upper /\ n < Len(s) /\ s[n + 1] \in Lower

RECURSIVE SplitWords(_, _)
SplitWords(s, n) ==
    IF n > Len(s) THEN <<>>
    ELSE (IF WordBoundary(s, n) THEN <<"_">> ELSE <<>>) \o <<s[n]>>
         \o SplitWords(s, n + 1)

\* step 5: what is left of s is every character that is not an underscore
\* right behind an underscore
RECURSIVE Collapsed(_, _)
Collapsed(s, n) ==
    IF n > Len(s) THEN <<>>
    ELSE (IF n > 1 /\ s[n] = "_" /\ s[n - 1] = "_" THEN <<>> ELSE <<s[n]>>)
         \o Collapsed(s, n + 1)

SixSteps(key, pfx, up) ==
    LET t1 == IF pfx = <<>> THEN key ELSE pfx \o <<"_">> \o key
        t2 == SplitWords(t1, 1)
        t3 == IF up THEN ToUpperCase(t2) ELSE ToLowerCase(t2)
        t4 == [n \in 1..Len(t3) |-> IF t3[n] \in WordChars THEN t3[n] ELSE "_"]
        t5 == Collapsed(t4, 1)
        first == IF t5 # <<>> /\ t5[1] = "_" THEN 2 ELSE 1
        last == IF Len(t5) >= first /\ t5[Len(t5)] = "_" THEN Len(t5) - 1 ELSE Len(t5)
    IN SubSeq(t5, first, last)

\* "helloWorld.LolHAHAOkay!" behind U+1F605, which is two UTF-16 code units
ExampleKey ==
    <<"U+D83D", "U+DE05", "h","e","l","l","o","W","o","r","l","d", ".",
      "L","o","l","H","A","H","A","O","k","a","y", "!">>

ExampleName ==
    <<"h","e","l","l","o","_","w","o","r","l","d","_","l","o","l","_",
      "h","a","h","a","_","o","k","a","y">>

C10_SixSteps ==
    /\ Len(nres) >= 1 => nres[1] = SixSteps(nkey, nprefix, nupcase)
    /\ Len(nres) = 2 => nres[2] = SixSteps(nres[1], nprefix, nupcase)
    /\ normalizeEnvKey(ExampleKey, <<>>, FALSE) = ExampleName
    /\ normalizeEnvKey(ExampleKey, <<>>, TRUE) = ToUpperCase(ExampleName)

\* an acronym before a word, behind a prefix: both kinds of boundary
C10_Witness ==
    /\ Len(nres) >= 1
    /\ nkey = <<"B", "B", "a">>
    /\ nprefix = <<"a", "B">>
    /\ ~nupcase
    /\ nres[1] = <<"a", "_", "b", "_", "b", "_", "b", "a">>

(***************************************************************************)
(* C11.  As claimed: issueFileCommand with a key/value pair succeeds       *)
(* exactly when neither the key nor the canonical value contains the       *)
(* generated delimiter; when it succeeds the file has received exactly one *)
(* append, the complete block; on a collision it fails and nothing is      *)
(* appended.                                                               *)
(***************************************************************************)
Framed == call.op = "issueFileCommand"

FrameCollides ==
    \/ Includes(call.key, Delimiter(call.uuid))
    \/ Includes(toCommandValue(call.value), Delimiter(call.uuid))

\* key<<token, newline, canonicalValue, newline, token, newline
FrameBlock ==
    call.key \o <<"<<">> \o Delimiter(call.uuid) \o <<EOL>>
    \o toCommandValue(call.value) \o <<EOL>> \o Delimiter(call.uuid) \o <<EOL>>

FrameSucceeded == thrown = NoError

OneAppend ==
    /\ GITHUB_ENV \in DOMAIN env
    /\ files = [Files0 EXCEPT ![env[GITHUB_ENV]] = <<FrameBlock>>]

NothingAppended == files = Files0

\* GITHUB_ENV names a file that exists
FrameFileAvailable ==
    GITHUB_ENV \in DOMAIN env /\ env[GITHUB_ENV] \in DOMAIN Files0

C11_Original ==
    Framed =>
        /\ FrameSucceeded <=> ~FrameCollides
        /\ FrameSucceeded => OneAppend
        /\ FrameCollides => NothingAppended

(***************************************************************************)
(* C11, amended.  When the GITHUB_<command> variable names a file that     *)
(* exists, issueFileCommand with a key/value pair succeeds exactly when    *)
(* neither the key nor the canonical value contains the generated          *)
(* delimiter (the fixed prefix "ghadelimiter_" alone, or another call's    *)
(* delimiter, is no collision); in every case a collision makes it fail,   *)
(* a success is exactly one append of the complete block, and a failure    *)
(* appends nothing.                                                        *)
(***************************************************************************)
C11_FramingContract ==
    Framed =>
        /\ FrameFileAvailable => (FrameSucceeded <=> ~FrameCollides)
        /\ FrameCollides => ~FrameSucceeded
        /\ FrameSucceeded => OneAppend
        /\ ~FrameSucceeded => NothingAppended

\* key "x", a value with a newline between the fixed prefix and the UUID:
\* framed in one block
C11_Witness ==
    /\ Framed
    /\ call.key = <<"x">>
    /\ call.value = JsString(<<"ghadelimiter_", LF, "u1">>)
    /\ call.uuid = "u1"
    /\ thrown = NoError
    /\ files[ExistingPath] =
         << <<"x", "<<", "ghadelimiter_", "u1", LF,
              "ghadelimiter_", LF, "u1", LF, "ghadelimiter_", "u1", LF>> >>

(***************************************************************************)
(* C12.  As claimed: getInput(name, {required: true}) throws the           *)
(* required-input error whenever INPUT_<NAME> is absent or is empty after  *)
(* whitespace handling: with trimming (the default) also when the value    *)
(* consists only of whitespace; so a required input never comes back as    *)
(* the empty string.                                                       *)
(***************************************************************************)
RequiredInputError ==
    thrown = <<"Input required and not supplied: ">> \o call.name

EmptyAfterWhitespaceHandling ==
    LET raw == EnvOrEmpty(env, InputVar(call.name))
    IN IF call.trimWhitespace
       THEN \A k \in 1..Len(raw) : raw[k] \in Whitespace
       ELSE raw = <<>>

C12_RequiredInputPresent ==
    (call.op = "getInput" /\ call.required) =>
        /\ EmptyAfterWhitespaceHandling => RequiredInputError
        /\ thrown = NoError => ret # <<>>

(***************************************************************************)
(* C13.  For every string s, escapeProperty(s) holds no raw CR, LF, ":"    *)
(* or "," and escapeData(s) holds no raw CR or LF; each is s with every    *)
(* character of its table replaced by that character's code and every      *)
(* other character kept, so the "%" of a code is never escaped again (LF   *)
(* gives "%0A", not "%250A").  And every text main writes to stdout is one *)
(* line of the shape ::name::message or ::set-env name=v::message: the     *)
(* only line terminator is the one at its end, and the property value      *)
(* holds no ":" and no ",".                                                *)
(***************************************************************************)
DataCode(c) ==
    IF c = "%" THEN <<"%", "2", "5">>
    ELSE IF c = CR THEN <<"%", "0", "D">>
    ELSE IF c = LF THEN <<"%", "0", "A">>
    ELSE <<c>>

PropertyCode(c) ==
    IF c = ":" THEN <<"%", "3", "A">>
    ELSE IF c = "," THEN <<"%", "2", "C">>
    ELSE DataCode(c)

RECURSIVE EncodeData(_)
EncodeData(s) ==
    IF s = <<>> THEN <<>> ELSE DataCode(Head(s)) \o EncodeData(Tail(s))

RECURSIVE EncodeProperty(_)
EncodeProperty(s) ==
    IF s = <<>> THEN <<>> ELSE PropertyCode(Head(s)) \o EncodeProperty(Tail(s))

OneCommandLine(w) ==
    /\ Len(w) >= 4
    /\ w[1] = "::"
    /\ w[2] \in {"warning", "error", "set-env"}
    /\ w[Len(w)] = EOL
    /\ \A k \in 1..(Len(w) - 1) : w[k] \notin {CR, LF}
    /\ IF w[2] = "set-env"
       THEN /\ Len(w) >= 7
            /\ SubSeq(w, 3, 5) = <<" ", "name", "=">>
            /\ \E k \in 6..(Len(w) - 1) :
                 /\ w[k] = "::"
                 /\ \A m \in 6..(k - 1) : w[m] \notin {":", ",", "::", " "}
       ELSE w[3] = "::"

C13_CommandsAreOneLine ==
    /\ call.op = "escape" =>
         /\ \A k \in 1..Len(ret.data) : ret.data[k] \notin {CR, LF}
         /\ \A k \in 1..Len(ret.property) :
               ret.property[k] \notin {CR, LF, ":", ","}
         /\ ret.data = EncodeData(call.s)
         /\ ret.property = EncodeProperty(call.s)
    /\ \A n \in 1..Len(stdout) : OneCommandLine(stdout[n])

\* main exported, as a set-env line, a value that holds "%", CR and LF
C13_Witness ==
    /\ pc = "done"
    /\ thrown = NoError
    /\ \E n \in 1..Len(stdout) :
         stdout[n] = <<"::", "set-env", " ", "name", "=", "f", "o", "o", "::",
                       "%", "2", "5", "%", "0", "D", "%", "0", "A",
                       "ghadelimiter_", "u1", EOL>>

(***************************************************************************)
(* C14.  As claimed: whenever an exportVariable call of main has ended,    *)
(* returned or thrown, every name whose value in process.env differs from  *)
(* the one it had when the process started has a matching export record:   *)
(* a set-env line on stdout or a block appended to a file, with that name  *)
(* and that value.                                                         *)
(***************************************************************************)
SetEnvLine(n, v) ==
    <<"::", "set-env", " ", "name", "=">> \o EncodeProperty(n) \o <<"::">>
    \o EncodeData(v) \o <<EOL>>

EnvBlock(n, v, uuid) ==
    n \o <<"<<">> \o Delimiter(uuid) \o <<EOL>> \o v \o <<EOL>>
    \o Delimiter(uuid) \o <<EOL>>

HasRecord(n, v) ==
    \/ \E k \in 1..Len(stdout) : stdout[k] = SetEnvLine(n, v)
    \/ \E p \in DOMAIN files : \E k \in 1..Len(files[p]) : \E uuid \in UUIDs :
          files[p][k] = EnvBlock(n, v, uuid)

\* the names process.env holds another value under than at the start
Assigned == {n \in DOMAIN env : n \notin DOMAIN env0 \/ env[n] # env0[n]}

C14_ExportIsOneUnit ==
    \A n \in Assigned : HasRecord(n, env[n])

(***************************************************************************)
(* C14, amended.  exportVariable assigns process.env first and emits the   *)
(* record second.  As long as no exportVariable call of main has thrown,   *)
(* every name whose value in process.env differs from the one it had when  *)
(* the process started has a matching export record.  A call that throws   *)
(* (GITHUB_ENV names a missing file, or the delimiter collides) has        *)
(* assigned process.env and emitted nothing: afterwards the name of that   *)
(* call, and no other name, may be without a matching record.              *)
(***************************************************************************)
C14_ReturnedExportsRecorded ==
    /\ thrown = NoError => \A n \in Assigned : HasRecord(n, env[n])
    /\ thrown # NoError =>
          /\ i <= Len(entries)
          /\ NameOf(i) \in DOMAIN env
          /\ env[NameOf(i)] = entries[i].value.str
          /\ \A n \in Assigned \ {NameOf(i)} : HasRecord(n, env[n])

\* two entries exported to the GITHUB_ENV file, each assigned and recorded
C14_Witness ==
    /\ pc = "done"
    /\ thrown = NoError
    /\ Len(entries) = 2 /\ i = 3
    /\ Cardinality(Assigned) = 2
    /\ Len(files[ExistingPath]) = 2
    /\ \A k \in 1..2 : files[ExistingPath][k] =
           EnvBlock(NameOf(k), entries[k].value.str, drawn[k])

(***************************************************************************)
(* C15.  As claimed: throughout a run of main, GITHUB_ENV is set in        *)
(* process.env exactly if it was set when the process started, and to the  *)
(* same value; and every export record went to the channel that value      *)
(* selects: to stdout only if GITHUB_ENV was unset, to a file only if that *)
(* file is the one GITHUB_ENV named at the start.                          *)
(***************************************************************************)
C15_StrategyFixed ==
    /\ (GITHUB_ENV \in DOMAIN env) = (GITHUB_ENV \in DOMAIN env0)
    /\ EnvOrEmpty(env, GITHUB_ENV) = EnvOrEmpty(env0, GITHUB_ENV)
    /\ EnvOrEmpty(env0, GITHUB_ENV) # <<>> =>
          \A n \in 1..Len(stdout) : ~IsCommand(stdout[n], "set-env")
    /\ \A p \in DOMAIN files :
          files[p] # Files0[p] => p = EnvOrEmpty(env0, GITHUB_ENV)

====
